---- MODULE Spec2Model ----
(***************************************************************************)
(* Model of the propositional-logic calculator: the lexer                  *)
(* (tokenize_expression), the precedence-climbing parser (build_ast), the  *)
(* evaluator (evaluate_tree), the variable extractor                       *)
(* (extract_logical_variables), the truth-table enumerator                 *)
(* (generate_truth_combinations, generate_truth_table) and the interactive *)
(* loop (main) of src/logic_calculator.py, with the operator table of      *)
(* src/logic_operators.py.                                                 *)
(*                                                                         *)
(* The text of an input line is a sequence of one-character strings; the   *)
(* names it is lexed into (operator symbols, variables, parentheses) are   *)
(* strings.  Python sequences are 0-based; the sequences here are 1-based, *)
(* so an index i of the source is the index i + 1 here.  A Python value is *)
(* a record tagged with its type; a call that can raise returns a record   *)
(* whose field exc is None or the exception raised.  A printed line is the *)
(* sequence of the strings whose concatenation is the line.                *)
(***************************************************************************)
EXTENDS Integers, Sequences, FiniteSets, TLC

VARIABLES pc, expression, tokens, ast, variables, result, table, output

vars == <<pc, expression, tokens, ast, variables, result, table, output>>

-----------------------------------------------------------------------------
(* Python values *)

None == [type |-> "NoneType"]

PyStr(s) == [type |-> "str", s |-> s]

PyBool(b) == [type |-> "bool", n |-> IF b THEN 1 ELSE 0]

PyInt(n) == [type |-> "int", n |-> n]

\* A str held as the sequence of its characters.
PyText(chars) == [type |-> "str", chars |-> chars]

PyList(items) == [type |-> "list", items |-> items]

\* A dict, items being the function from its keys to their values.
PyDict(items) == [type |-> "dict", items |-> items]

\* A local variable that no assignment has bound.
Unbound == [type |-> "unbound"]

\* Truth value testing of a bool or an int, as `not`, `and`, `or`, bool() and `if` do it.
truthy(v) == v.n # 0

\* An exception e of the given class; msg holds the pieces of str(e).
Exception(type, msg) == [type |-> type, msg |-> msg]

-----------------------------------------------------------------------------
(* Text *)

LowerCase == <<"a", "b", "c", "d", "e", "f", "g", "h", "i", "j", "k", "l", "m",
               "n", "o", "p", "q", "r", "s", "t", "u", "v", "w", "x", "y", "z">>

UpperCase == <<"A", "B", "C", "D", "E", "F", "G", "H", "I", "J", "K", "L", "M",
               "N", "O", "P", "Q", "R", "S", "T", "U", "V", "W", "X", "Y", "Z">>

Range(f) == {f[i] : i \in DOMAIN f}

\* str.isspace of one character
isspace(char) == char \in {" ", "\t", "\n", "\r"}

LowerCaseLetters == Range(LowerCase)

UpperCaseLetters == Range(UpperCase)

\* str.isalpha of one character
isalpha(char) == char \in LowerCaseLetters \/ char \in UpperCaseLetters

\* str.upper
upper(text) ==
    [i \in DOMAIN text |->
        IF text[i] \in LowerCaseLetters
        THEN UpperCase[CHOOSE k \in DOMAIN LowerCase : LowerCase[k] = text[i]]
        ELSE text[i]]

RECURSIVE lstrip(_)
lstrip(text) ==
    IF text # <<>> /\ isspace(Head(text)) THEN lstrip(Tail(text)) ELSE text

RECURSIVE rstrip(_)
rstrip(text) ==
    IF text # <<>> /\ isspace(text[Len(text)])
    THEN rstrip(SubSeq(text, 1, Len(text) - 1))
    ELSE text

\* str.strip
strip(text) == rstrip(lstrip(text))

\* text[index:index+n] of the source, with index counted from 1 here
slice(text, index, n) ==
    SubSeq(text, index, IF index + n - 1 > Len(text) THEN Len(text) ELSE index + n - 1)

-----------------------------------------------------------------------------
(* Operator table and tokens *)

\* The table in its insertion order; arity is the lambda's parameter count.
operators ==
    << [name |-> "NOT", chars |-> <<"N", "O", "T">>, precedence |-> 1, arity |-> 1],
       [name |-> "AND", chars |-> <<"A", "N", "D">>, precedence |-> 2, arity |-> 2],
       [name |-> "XOR", chars |-> <<"X", "O", "R">>, precedence |-> 3, arity |-> 2],
       [name |-> "OR",  chars |-> <<"O", "R">>,      precedence |-> 4, arity |-> 2],
       [name |-> "IMP", chars |-> <<"I", "M", "P">>, precedence |-> 5, arity |-> 2],
       [name |-> "IFF", chars |-> <<"I", "F", "F">>, precedence |-> 6, arity |-> 2] >>

OPERATOR == "OPERATOR"
OPERAND == "OPERAND"
PARENTHESIS == "PARENTHESIS"

Token(token_type, value, precedence, associativity) ==
    [token_type |-> token_type, value |-> value,
     precedence |-> precedence, associativity |-> associativity]

\* associativity tag given to an operator token
associativity_of(op) == IF op = "NOT" THEN "right" ELSE "left"

OperatorToken(k) ==
    Token(OPERATOR, PyStr(operators[k].name), operators[k].precedence,
          associativity_of(operators[k].name))

\* The first table entry, in table order, that the text at index starts with; 0 if none
\* (the for loop over operators.keys() and its else branch).
match_operator(text, index) ==
    LET hits == {k \in DOMAIN operators :
                    slice(text, index, Len(operators[k].chars)) = operators[k].chars}
    IN  IF hits = {} THEN 0 ELSE CHOOSE k \in hits : \A j \in hits : k <= j

RECURSIVE tokenize_from(_, _, _)
tokenize_from(text, index, toks) ==
    IF index > Len(text) THEN [exc |-> None, tokens |-> toks]
    ELSE LET char == text[index] IN
         IF isspace(char) THEN tokenize_from(text, index + 1, toks)
         ELSE IF char = "(" \/ char = ")"
         THEN tokenize_from(text, index + 1,
                            Append(toks, Token(PARENTHESIS, PyStr(char), None, None)))
         ELSE IF slice(text, index, 4) = <<"T", "R", "U", "E">>
         THEN tokenize_from(text, index + 4,
                            Append(toks, Token(OPERAND, PyBool(TRUE), None, None)))
         ELSE IF slice(text, index, 5) = <<"F", "A", "L", "S", "E">>
         THEN tokenize_from(text, index + 5,
                            Append(toks, Token(OPERAND, PyBool(FALSE), None, None)))
         ELSE LET k == match_operator(text, index) IN
              IF k # 0
              THEN tokenize_from(text, index + Len(operators[k].chars),
                                 Append(toks, OperatorToken(k)))
              ELSE IF isalpha(char)
              THEN tokenize_from(text, index + 1,
                                 Append(toks, Token(OPERAND, PyStr(char), None, None)))
              ELSE [exc |-> Exception("ValueError", <<"Unknown character: ", char>>),
                    tokens |-> toks]

tokenize_expression(text) == tokenize_from(upper(text), 1, <<>>)

-----------------------------------------------------------------------------
(* Syntax tree and parser *)

\* str() of a value
str(v) ==
    CASE v.type = "str" -> v.s
      [] v.type = "bool" -> IF v.n = 1 THEN "True" ELSE "False"
      [] v.type = "int" -> ToString(v.n)
      [] v.type = "NoneType" -> "None"

\* Token.__repr__, in pieces; only an operator token has a precedence other than None
repr(token) ==
    << "Token(type=", token.token_type, ", value=", str(token.value), ", precedence=",
       IF token.token_type = OPERATOR THEN ToString(token.precedence) ELSE "None", ")" >>

ASTNode(value, left, right) == [value |-> value, left |-> left, right |-> right]

\* tokens.pop(0) on an empty list
pop_from_empty(toks) ==
    [exc |-> Exception("IndexError", <<"pop from empty list">>), node |-> None,
     tokens |-> toks]

\* Variant of close_group that insists on the closing parenthesis.
close_group_strict(r) ==
    IF r.tokens # <<>> /\ r.tokens[1].value = PyStr(")")
    THEN [r EXCEPT !.tokens = Tail(r.tokens)]
    ELSE [exc |-> Exception("ValueError", <<"Expected )">>), node |-> None,
          tokens |-> r.tokens]

\* After the sub-expression of a group: the closing parenthesis is removed when it is
\* the next token, and the group's node is returned either way.
close_group(r) ==
    IF r.tokens # <<>> /\ r.tokens[1].value = PyStr(")")
    THEN [r EXCEPT !.tokens = Tail(r.tokens)]
    ELSE r

\* Variant of next_precedence that treats every operator as right-associative.
next_precedence_same(token) == token.precedence

\* Minimum precedence handed to the parse of the right operand.
next_precedence(token) ==
    IF token.associativity = "left" THEN token.precedence + 1 ELSE token.precedence

\* Condition of the while loop of parse_operator.
loop_condition(toks, precedence_level) ==
    /\ toks # <<>>
    /\ toks[1].token_type = OPERATOR
    /\ toks[1].precedence >= precedence_level

RECURSIVE build_ast(_)
RECURSIVE parse_primary(_)
RECURSIVE parse_operator(_, _)
RECURSIVE parse_operator_loop(_, _, _)

parse_primary(toks) ==
    IF toks = <<>> THEN pop_from_empty(toks)
    ELSE LET token == Head(toks)
             rest == Tail(toks)
         IN  IF token.token_type = OPERAND
             THEN [exc |-> None, node |-> ASTNode(token.value, None, None), tokens |-> rest]
             ELSE IF token.token_type = PARENTHESIS /\ token.value = PyStr("(")
             THEN LET r == build_ast(rest)
                  IN  IF r.exc # None THEN r ELSE close_group(r)
             ELSE IF token.token_type = OPERATOR /\ token.value = PyStr("NOT")
             THEN LET r == parse_primary(rest)
                  IN  IF r.exc # None THEN r
                      ELSE [exc |-> None, node |-> ASTNode(token.value, r.node, None),
                            tokens |-> r.tokens]
             ELSE [exc |-> Exception("ValueError", <<"Unexpected token: ">> \o repr(token)),
                   node |-> None, tokens |-> rest]

parse_operator_loop(node, toks, precedence_level) ==
    IF loop_condition(toks, precedence_level)
    THEN LET token == Head(toks)
             r == parse_operator(Tail(toks), next_precedence(token))
         IN  IF r.exc # None THEN r
             ELSE parse_operator_loop(ASTNode(token.value, node, r.node), r.tokens,
                                      precedence_level)
    ELSE [exc |-> None, node |-> node, tokens |-> toks]

parse_operator(toks, precedence_level) ==
    LET r == parse_primary(toks)
    IN  IF r.exc # None THEN r ELSE parse_operator_loop(r.node, r.tokens, precedence_level)

build_ast(toks) == parse_operator(toks, 0)

-----------------------------------------------------------------------------
(* Evaluator *)

operator_names == {operators[k].name : k \in DOMAIN operators}

operator_entry(name) == operators[CHOOSE k \in DOMAIN operators : operators[k].name = name]

\* The lambdas of the table, applied to already evaluated operands.
lambda_NOT(a) == PyInt(IF truthy(a) THEN 0 ELSE 1)
lambda_AND(a, b) == PyInt(IF truthy(a) THEN b.n ELSE a.n)
lambda_XOR(a, b) == PyInt(IF a.n # b.n THEN 1 ELSE 0)
lambda_OR(a, b) == PyInt(IF truthy(a) THEN a.n ELSE b.n)
lambda_IMP(a, b) == PyInt(IF ~truthy(a) THEN 1 ELSE b.n)
lambda_IFF(a, b) == PyInt(IF a.n = b.n THEN 1 ELSE 0)

\* operators[value][1](*args): KeyError for a value that is no key of the table,
\* TypeError when the lambda is called with the wrong number of arguments.
call_operator(value, args) ==
    IF value.type # "str" \/ value.s \notin operator_names
    THEN [exc |-> Exception("KeyError", <<str(value)>>), value |-> None]
    ELSE IF Len(args) # operator_entry(value.s).arity
    THEN [exc |-> Exception("TypeError",
                            <<"<lambda>() takes positional arguments: ",
                              ToString(operator_entry(value.s).arity), ", given: ",
                              ToString(Len(args))>>),
          value |-> None]
    ELSE [exc |-> None,
          value |-> CASE value.s = "NOT" -> lambda_NOT(args[1])
                      [] value.s = "AND" -> lambda_AND(args[1], args[2])
                      [] value.s = "XOR" -> lambda_XOR(args[1], args[2])
                      [] value.s = "OR" -> lambda_OR(args[1], args[2])
                      [] value.s = "IMP" -> lambda_IMP(args[1], args[2])
                      [] value.s = "IFF" -> lambda_IFF(args[1], args[2])]

\* variable_values.get(name, False)
dict_get(variable_values, name) ==
    IF name \in DOMAIN variable_values.items THEN variable_values.items[name]
    ELSE PyBool(FALSE)

RECURSIVE evaluate_tree(_, _)
evaluate_tree(node, variable_values) ==
    IF variable_values = None THEN evaluate_tree(node, PyDict(<<>>))
    ELSE IF node = None
    THEN [exc |-> Exception("AttributeError", <<"'NoneType' object has no attribute 'left'">>),
          value |-> None]
    ELSE IF node.left = None /\ node.right = None
    THEN IF node.value.type = "str"
         THEN [exc |-> None, value |-> dict_get(variable_values, node.value.s)]
         ELSE [exc |-> None, value |-> node.value]
    ELSE IF node.left # None /\ node.right = None
    THEN LET operand == evaluate_tree(node.left, variable_values)
         IN  IF operand.exc # None THEN operand
             ELSE call_operator(node.value, <<operand.value>>)
    ELSE LET left_value == evaluate_tree(node.left, variable_values)
         IN  IF left_value.exc # None THEN left_value
             ELSE LET right_value == evaluate_tree(node.right, variable_values)
                  IN  IF right_value.exc # None THEN right_value
                      ELSE call_operator(node.value, <<left_value.value, right_value.value>>)

-----------------------------------------------------------------------------
(* Variable extractor *)

RECURSIVE extract_logical_variables(_, _)
extract_logical_variables(node, vs) ==
    LET own == IF node.left = None /\ node.right = None /\ node.value.type = "str"
               THEN vs \cup {node.value.s} ELSE vs
        after_left == IF node.left # None
                      THEN extract_logical_variables(node.left, own) ELSE own
    IN  IF node.right # None
        THEN extract_logical_variables(node.right, after_left) ELSE after_left

\* Position of a one-letter string in the collating order of upper-case letters.
ord(name) == CHOOSE k \in DOMAIN UpperCase : UpperCase[k] = name

\* sorted() of a set of one-letter strings
RECURSIVE sorted(_)
sorted(vs) ==
    IF vs = {} THEN <<>>
    ELSE LET least == CHOOSE v \in vs : \A w \in vs : ord(v) <= ord(w)
         IN  <<least>> \o sorted(vs \ {least})

-----------------------------------------------------------------------------
(* Truth-table enumerator *)

\* (i >> j) & 1
bit(i, j) == (i \div (2 ^ j)) % 2

\* Variant of reversed that leaves the order as it is.
reversed_not(seq) == seq

\* seq[::-1]
reversed(seq) == [k \in DOMAIN seq |-> seq[Len(seq) - k + 1]]

\* The combination appended for counter value i: its bits j = 0 .. n-1, reversed.
combination_of(i, n) == reversed([j \in 1 .. n |-> bit(i, j - 1)])

\* Variant of generate_truth_combinations that yields nothing for no variables.
generate_truth_combinations_none(n) ==
    IF n = 0 THEN <<>> ELSE [i \in 1 .. 2 ^ n |-> combination_of(i - 1, n)]

generate_truth_combinations(n) == [i \in 1 .. 2 ^ n |-> combination_of(i - 1, n)]

min(a, b) == IF a <= b THEN a ELSE b

\* {var: val for var, val in zip(vs, values)}; a repeated key keeps its last value
zip_dict(vs, values) ==
    LET n == min(Len(vs), Len(values))
    IN  PyDict([var \in {vs[k] : k \in 1 .. n} |->
                   values[CHOOSE k \in 1 .. n :
                              vs[k] = var /\ \A j \in 1 .. n : vs[j] = var => j <= k]])

\* sep.join(items), in pieces
RECURSIVE str_join(_, _)
str_join(sep, items) ==
    IF items = <<>> THEN <<>>
    ELSE IF Len(items) = 1 THEN items
    ELSE <<items[1], sep>> \o str_join(sep, Tail(items))

\* The two lines printed before the rows:
\* ' | '.join(variables) + " | RESULT" and '-' * (4 * len(variables) + 9)
table_heading(vs) ==
    << Append(str_join(" | ", vs), " | RESULT"),
       [i \in 1 .. 4 * Len(vs) + 9 |-> "-"] >>

\* The line printed for a row: ' | '.join(map(str, combination)) + " | " + str(result_val)
row_line(combination, result_val) ==
    str_join(" | ", [k \in DOMAIN combination |-> ToString(combination[k])])
    \o <<" | ", ToString(result_val)>>

\* One row of the table, in either of its two forms.
table_row(vs, combination, result_val, return_as_dict) ==
    IF return_as_dict
    THEN LET row == zip_dict(vs, combination).items
         IN  PyDict([key \in DOMAIN row \cup {"RESULT"} |->
                        IF key = "RESULT" THEN result_val ELSE row[key]])
    ELSE Append(combination, result_val)

\* Returns the table, or raises what evaluate_tree raises at the first combination
\* on which it fails; printed holds the lines printed until then.
generate_truth_table(tree, vs, return_as_dict, print_table) ==
    LET combinations == generate_truth_combinations(Len(vs))
        variable_values(k) ==
            zip_dict(vs, [j \in DOMAIN combinations[k] |-> PyBool(combinations[k][j] # 0)])
        evaluated == [k \in DOMAIN combinations |-> evaluate_tree(tree, variable_values(k))]
        failing == {k \in DOMAIN combinations : evaluated[k].exc # None}
        done == IF failing = {} THEN Len(combinations)
                ELSE (CHOOSE k \in failing : \A j \in failing : k <= j) - 1
        result_val(k) == IF truthy(evaluated[k].value) THEN 1 ELSE 0
        rows == [k \in 1 .. done |->
                    table_row(vs, combinations[k], result_val(k), return_as_dict)]
        printed == IF print_table
                   THEN table_heading(vs) \o
                        [k \in 1 .. done |-> row_line(combinations[k], result_val(k))]
                   ELSE <<>>
    IN  [exc |-> IF failing = {} THEN None ELSE evaluated[done + 1].exc,
         table |-> IF failing = {} THEN rows ELSE None,
         printed |-> printed]

-----------------------------------------------------------------------------
(* Input lines *)

\* Longest line, in words, of the general family of input lines.
MaxWords == 3

\* Most operators in a line of the operator-chain family.
MaxOps == 2

\* Most variables in an ordered variable list handed to generate_truth_table.
MaxVars == 3

\* The characters of the words, one space between two words.
RECURSIVE Text(_)
Text(words) ==
    IF words = <<>> THEN <<>>
    ELSE IF Len(words) = 1 THEN words[1]
    ELSE words[1] \o <<" ">> \o Text(Tail(words))

chars_of(name) ==
    operators[CHOOSE k \in DOMAIN operators : operators[k].name = name].chars

Words ==
    { <<"A">>, <<"b">>, <<"T", "R", "U", "E">>, <<"F", "A", "L", "S", "E">>,
      chars_of("NOT"), chars_of("AND"), <<"(">>, <<")">>,
      <<"A", "N">>, <<"#">>, <<"Q">>, <<"h">>, <<" ">> }

\* Every line of at most MaxWords words.
WordLines == {Text(ws) : ws \in UNION {[1 .. n -> Words] : n \in 0 .. MaxWords}}

\* Operands A, B, C, ... separated by the operators ops, with an opening parenthesis
\* before operand number open (none when 0) and a closing one at the end when close.
chain(ops, open, close) ==
    LET piece(i) == (IF open = i THEN <<(<<"(">>)>> ELSE <<>>) \o <<(<<UpperCase[i]>>)>>
                    \o (IF i <= Len(ops) THEN <<chars_of(ops[i])>> ELSE <<>>)
        pieces[i \in 0 .. Len(ops) + 1] == IF i = 0 THEN <<>> ELSE pieces[i - 1] \o piece(i)
    IN  pieces[Len(ops) + 1] \o (IF close THEN <<(<<")">>)>> ELSE <<>>)

ChainLines ==
    {Text(chain(ops, open, close)) :
        ops \in UNION {[1 .. k -> operator_names] : k \in 0 .. MaxOps},
        open \in 0 .. MaxOps + 1, close \in BOOLEAN}

Lines == WordLines \cup ChainLines

-----------------------------------------------------------------------------
(* The interactive loop *)

QuitCommands == { <<"Q">>, <<"X">>, <<"Q", "U", "I", "T">>, <<"E", "X", "I", "T">> }

HelpCommands == { <<"H">>, <<"H", "E", "L", "P">> }

\* input("Prop Exp? ").strip().upper()
read_expression(line) == upper(strip(line))

\* a + b for a str a, in pieces
str_add(a, b) ==
    IF b.type = "str"
    THEN [exc |-> None, value |-> <<a, b.s>>]
    ELSE [exc |-> Exception("TypeError",
                            <<"can only concatenate str (not \"", b.type, "\") to str">>),
          value |-> None]

\* The try block of main: what its locals hold when it ends, the lines it printed,
\* and the exception that ended it (None when it ran to its end).
try_block(text) ==
    LET start == [exc |-> None, tokens |-> Unbound, ast |-> Unbound,
                  variables |-> Unbound, result |-> Unbound, printed |-> <<>>]
        t == tokenize_expression(text)
    IN  IF t.exc # None THEN [start EXCEPT !.exc = t.exc]
        ELSE
        LET b == build_ast(t.tokens)
            parsed == [start EXCEPT !.tokens = PyList(b.tokens)]
        IN  IF b.exc # None THEN [parsed EXCEPT !.exc = b.exc]
            ELSE
            LET vs == sorted(extract_logical_variables(b.node, {}))
                bound == [parsed EXCEPT !.ast = b.node, !.variables = PyList(vs)]
            IN  IF vs # <<>>
                THEN LET g == generate_truth_table(b.node, vs, FALSE, TRUE)
                     IN  [bound EXCEPT !.exc = g.exc, !.printed = g.printed]
                ELSE
                LET e == evaluate_tree(b.node, None)
                IN  IF e.exc # None THEN [bound EXCEPT !.exc = e.exc]
                    ELSE
                    LET line == str_add("Result: ", e.value)
                    IN  IF line.exc # None
                        THEN [bound EXCEPT !.result = e.value, !.exc = line.exc]
                        ELSE [bound EXCEPT !.result = e.value, !.printed = <<line.value>>]

\* print("Err: " + str(e))
except_line(e) == <<"Err: ">> \o e.msg

Init ==
    /\ pc = "prompt"
    /\ expression = Unbound
    /\ tokens = Unbound
    /\ ast = Unbound
    /\ variables = Unbound
    /\ result = Unbound
    /\ table = Unbound
    /\ output = <<>>

\* expression = input("Prop Exp? ").strip().upper()
ReadLine ==
    /\ pc = "prompt"
    /\ \E line \in Lines : expression' = PyText(read_expression(line))
    /\ pc' = "read"
    /\ UNCHANGED <<tokens, ast, variables, result, table, output>>

\* The expression is one of "Q", "X", "QUIT", "EXIT": break.
Quit ==
    /\ pc = "read"
    /\ expression.chars \in QuitCommands
    /\ pc' = "exit"
    /\ UNCHANGED <<expression, tokens, ast, variables, result, table, output>>

\* The expression is "H" or "HELP": print the operators, continue.
Help ==
    /\ pc = "read"
    /\ expression.chars \notin QuitCommands
    /\ expression.chars \in HelpCommands
    /\ output' = << <<"NOT; AND; OR; XOR; IMP; IFF;">> >>
    /\ pc' = "continue"
    /\ UNCHANGED <<expression, tokens, ast, variables, result, table>>

\* Any other expression: the try block, and the except clause when it raised.
Evaluate ==
    /\ pc = "read"
    /\ expression.chars \notin QuitCommands \cup HelpCommands
    /\ LET r == try_block(expression.chars)
       IN  /\ tokens' = r.tokens
           /\ ast' = r.ast
           /\ variables' = r.variables
           /\ result' = r.result
           /\ output' = IF r.exc # None
                        THEN Append(r.printed, except_line(r.exc))
                        ELSE r.printed
    /\ pc' = "continue"
    /\ UNCHANGED <<expression, table>>

\* Back to the head of `while True`.  The locals of the iteration that ended are
\* dead there and output records the lines of one iteration, so both start afresh.
Loop ==
    /\ pc = "continue"
    /\ pc' = "prompt"
    /\ expression' = Unbound
    /\ tokens' = Unbound
    /\ ast' = Unbound
    /\ variables' = Unbound
    /\ result' = Unbound
    /\ output' = <<>>
    /\ UNCHANGED table

Next == ReadLine \/ Quit \/ Help \/ Evaluate \/ Loop

Spec == Init /\ [][Next]_vars

-----------------------------------------------------------------------------
(* generate_truth_table called directly, on any ordered list of distinct variables *)

\* The trees build_ast returns for the operator chains without parentheses.
TableTrees ==
    {build_ast(tokenize_expression(Text(chain(ops, 0, FALSE))).tokens).node :
        ops \in UNION {[1 .. k -> operator_names] : k \in 0 .. MaxOps}}

\* The ordered lists of distinct variables among the first MaxVars letters.
OrderedVariables ==
    {vs \in UNION {[1 .. n -> {UpperCase[k] : k \in 1 .. MaxVars}] : n \in 0 .. MaxVars} :
        \A i, j \in DOMAIN vs : vs[i] = vs[j] => i = j}

InitTable ==
    /\ pc = "call"
    /\ ast \in TableTrees
    /\ variables \in {PyList(vs) : vs \in OrderedVariables}
    /\ expression = Unbound
    /\ tokens = Unbound
    /\ result = Unbound
    /\ table = Unbound
    /\ output = <<>>

\* table = generate_truth_table(ast, variables), the other parameters at their defaults
GenerateTruthTable ==
    /\ pc = "call"
    /\ LET g == generate_truth_table(ast, variables.items, FALSE, TRUE)
       IN  /\ table' = IF g.exc = None THEN PyList(g.table) ELSE Unbound
           /\ output' = g.printed
           /\ pc' = IF g.exc = None THEN "return" ELSE "raise"
    /\ UNCHANGED <<expression, tokens, ast, variables, result>>

NextTable == GenerateTruthTable

SpecTable == InitTable /\ [][NextTable]_vars

-----------------------------------------------------------------------------
(* Properties of the interactive loop, stated of the iteration that just ended *)

\* An iteration that ran the try block ended.
Tried == pc = "continue" /\ expression.chars \notin HelpCommands

\* What the lexer returned for the expression of that iteration.
Lexed == tokenize_expression(expression.chars)

\* An iteration ended in which build_ast returned a tree (ast is bound only then).
Returned == pc = "continue" /\ ast # Unbound

Leaf(token) == ASTNode(token.value, None, None)

Var(letter) == ASTNode(PyStr(letter), None, None)

Binary(op, left, right) == ASTNode(PyStr(op), left, right)

binary_names == operator_names \ {"NOT"}

IsOperandToken(token) == token.token_type = OPERAND

IsBinaryToken(token) == token.token_type = OPERATOR /\ token.value.s \in binary_names

\* C1: for the tokens of `X op1 Y op2 Z`, with op1 and op2 binary operators of
\* different precedence numbers, the operator with the smaller number groups tighter:
\* ((X op1 Y) op2 Z) when op1 has the smaller number, (X op1 (Y op2 Z)) otherwise.
C1_SmallerNumberBindsTighter ==
    (/\ Returned
     /\ Len(Lexed.tokens) = 5
     /\ \A i \in {1, 3, 5} : IsOperandToken(Lexed.tokens[i])
     /\ \A i \in {2, 4} : IsBinaryToken(Lexed.tokens[i])
     /\ Lexed.tokens[2].precedence # Lexed.tokens[4].precedence)
    => LET t == Lexed.tokens
       IN  ast = IF t[2].precedence < t[4].precedence
                 THEN ASTNode(t[4].value,
                              ASTNode(t[2].value, Leaf(t[1]), Leaf(t[3])), Leaf(t[5]))
                 ELSE ASTNode(t[2].value, Leaf(t[1]),
                              ASTNode(t[4].value, Leaf(t[3]), Leaf(t[5])))

\* C2: whenever build_ast returns a tree, no token is left unconsumed.
C2_NoTreeWithTokensLeft == Returned => tokens.items = <<>>

RECURSIVE WellShaped(_)
WellShaped(node) ==
    \/ /\ node.left = None /\ node.right = None
       /\ \/ node.value.type = "bool"
          \/ node.value.type = "str" /\ node.value.s \in UpperCaseLetters
    \/ /\ node.left # None /\ node.right = None
       /\ node.value = PyStr("NOT")
       /\ WellShaped(node.left)
    \/ /\ node.left # None /\ node.right # None
       /\ node.value.type = "str" /\ node.value.s \in binary_names
       /\ WellShaped(node.left) /\ WellShaped(node.right)

\* C3: every node of a tree build_ast returns is a leaf holding a constant or a
\* one-letter variable, a NOT node with a left child only, or a node with two
\* children holding one of AND, XOR, OR, IMP, IFF.
C3_ThreeNodeShapes == Returned => WellShaped(ast)

\* The variable operand tokens the lexer emitted.
LexedVariables ==
    {Lexed.tokens[i].value.s : i \in {j \in DOMAIN Lexed.tokens :
        IsOperandToken(Lexed.tokens[j]) /\ Lexed.tokens[j].value.type = "str"}}

\* C5: for a text the lexer and the parser accept, the variables extracted from the
\* tree are exactly the variable operand tokens of the text.
C5_ExtractedAreLexedVariables == Returned => Range(variables.items) = LexedVariables

\* The chain X1 op X2 op ... nested to the left.
RECURSIVE LeftNest(_)
LeftNest(toks) ==
    IF Len(toks) = 1 THEN Leaf(toks[1])
    ELSE ASTNode(toks[Len(toks) - 1].value,
                 LeftNest(SubSeq(toks, 1, Len(toks) - 2)), Leaf(toks[Len(toks)]))

\* Operand tokens separated by k >= 2 binary operators of one precedence.
IsEqualPrecedenceChain(toks) ==
    /\ Len(toks) >= 5 /\ Len(toks) % 2 = 1
    /\ \A i \in DOMAIN toks :
        IF i % 2 = 1 THEN IsOperandToken(toks[i])
        ELSE IsBinaryToken(toks[i]) /\ toks[i].precedence = toks[2].precedence

\* C7: a chain of two or more binary operators of equal precedence is nested to the
\* left: the root's right child is the last operand, its left child the tree of the
\* chain without its last operator.
C7_EqualPrecedenceNestsLeft ==
    (Tried /\ Lexed.exc = None /\ IsEqualPrecedenceChain(Lexed.tokens))
    => ast = LeftNest(Lexed.tokens) /\ tokens.items = <<>>

C7_Witness ==
    /\ pc = "continue"
    /\ expression.chars = Text(<<(<<"A">>), chars_of("IMP"), <<"B">>, chars_of("IMP"), <<"C">>>>)
    /\ ast = Binary("IMP", Binary("IMP", Var("A"), Var("B")), Var("C"))

\* The lexed tokens followed by one closing parenthesis, parsed.
Closed == build_ast(Append(Lexed.tokens, Token(PARENTHESIS, PyStr(")"), None, None)))

\* C8: when the tokens followed by one more `)` parse to the end, that `)` closing a
\* group, the tokens without it parse without error to the same tree, and the token
\* list is left empty in both cases.
C8_UnterminatedGroupAsIfClosed ==
    (Tried /\ Lexed.exc = None /\ Closed.exc = None /\ Closed.tokens = <<>>)
    => ast = Closed.node /\ tokens.items = <<>>

C8_Witness ==
    /\ pc = "continue"
    /\ expression.chars = Text(<<(<<"(">>), <<"A">>, chars_of("AND"), <<"B">>>>)
    /\ ast = Binary("AND", Var("A"), Var("B"))
    /\ tokens.items = <<>>
    /\ Closed.node = ast /\ Closed.tokens = <<>>

\* C9: an expression without variables that tokenizes, parses and evaluates has its
\* result printed, not an error message.
C9_ResultPrinted ==
    (Returned /\ variables.items = <<>> /\ evaluate_tree(ast, None).exc = None)
    => Len(output) = 1 /\ output[1][1] = "Result: "

\* The assignments of truth values to any of the variables of a tree.
Assignments(tree) ==
    {PyDict(items) :
        items \in UNION {[vs -> {PyBool(TRUE), PyBool(FALSE)}] :
                            vs \in SUBSET extract_logical_variables(tree, {})}}

\* Evaluation of a tree returns a truth value under every assignment and under none.
EvaluatesEverywhere(tree) ==
    \A variable_values \in Assignments(tree) \cup {None} :
        LET e == evaluate_tree(tree, variable_values)
        IN  e.exc = None /\ e.value.n \in {0, 1}

\* C10: evaluate_tree returns a truth value, and raises nothing, for every tree
\* build_ast returns, under every assignment, the empty one included.
C10_EvaluationNeverFails == Returned => EvaluatesEverywhere(ast)

\* Supporting lemmas: the failures of C5 and C10 arise only through C2 and C3.
\* With no token left over, the extracted variables are the lexed ones.
Check_ExtractedWhenAllConsumed ==
    (Returned /\ tokens.items = <<>>) => Range(variables.items) = LexedVariables

\* A tree of the three shapes evaluates without error.
Check_WellShapedEvaluates ==
    (Returned /\ WellShaped(ast)) => EvaluatesEverywhere(ast)

-----------------------------------------------------------------------------
(* Properties of generate_truth_table *)

\* C4: for n >= 1 distinct variables the table has 2^n rows, row i (from 0) gives the
\* variable at position k (from 0) bit n-1-k of i, and every assignment appears in
\* exactly one row.
C4_RowsCountInBinary ==
    (pc = "return" /\ Len(variables.items) >= 1)
    => LET n == Len(variables.items)
           rows == table.items
       IN  /\ Len(rows) = 2 ^ n
           /\ \A i \in 0 .. 2 ^ n - 1 : \A k \in 0 .. n - 1 :
                 rows[i + 1][k + 1] = (i \div 2 ^ (n - 1 - k)) % 2
           /\ \A a \in [1 .. n -> {0, 1}] :
                 Cardinality({i \in DOMAIN rows : SubSeq(rows[i], 1, n) = a}) = 1

C4_Witness ==
    /\ pc = "return"
    /\ variables.items = <<"B", "A", "C">>
    /\ Len(table.items) = 8
    /\ SubSeq(table.items[5], 1, 3) = <<1, 0, 0>>

\* C6 as claimed: for an empty variable list the returned table is the empty sequence.
C6_EmptyTableForNoVariables ==
    (pc = "return" /\ variables.items = <<>>) => table.items = <<>>

\* C6 as amended: for an empty variable list the returned table has exactly one row,
\* which holds nothing but the result of the tree under the empty assignment.
C6_OneResultRowForNoVariables ==
    (pc = "return" /\ variables.items = <<>>)
    => /\ Len(table.items) = 1
       /\ table.items[1] = <<IF truthy(evaluate_tree(ast, None).value) THEN 1 ELSE 0>>

C6_Witness ==
    /\ pc = "return"
    /\ variables.items = <<>>
    /\ ast = Binary("AND", Var("A"), Var("B"))
    /\ table.items = << <<0>> >>

====
